---- MODULE Spec2Model ----
(***************************************************************************)
(* A model of haussmeister/cnmf.py: the array cache (tiffs_to_cnmf), the   *)
(* two orchestrators (process_data, process_data_patches) and the contour  *)
(* extractor (contour).                                                    *)
(*                                                                         *)
(* The files of a dataset (<name>_Y.npy, <name>_Yr.npy, <name>_cnmf.mat,   *)
(* <name>_proj.npy), the ipyparallel backend (running or not) and the      *)
(* position of the controlling thread inside a run are the state.  The     *)
(* numeric library (module cse) is a black box: a stage either returns or  *)
(* raises, and what it returns is identified by the inputs it was given.   *)
(***************************************************************************)
EXTENDS Integers, Sequences, FiniteSets, TLC

(***************************************************************************)
(* Bounds of the model.                                                    *)
(***************************************************************************)
NumDatasets == 2
NumFrames == 2
MaxRuns == 2
MaxCpus == 2
MaxCols == 2
MaxWeight == 2
NumComponents == 2
NumPixels == 4
MaxSide == 3

Datasets == 1..NumDatasets

Min(a, b) == IF a < b THEN a ELSE b

(***************************************************************************)
(* Masks.  mask=None is [given |-> FALSE]; a boolean array is its sequence *)
(* of entries, TRUE meaning "frame is masked (excluded)".                  *)
(***************************************************************************)
NoMask == [given |-> FALSE, m |-> <<>>]
BoolSeqs(n) == UNION {[1..k -> BOOLEAN] : k \in 0..n}
Masks == {NoMask} \cup {[given |-> TRUE, m |-> s] : s \in BoolSeqs(NumFrames + 1)}

(***************************************************************************)
(* Files.  A .npy file holds the frames that were kept when it was written *)
(* and carries a write counter (its mtime).                                *)
(***************************************************************************)
NoFile == [exists |-> FALSE, frames |-> {}, ver |-> 0]
NpySave(old, frames) == [exists |-> TRUE, frames |-> frames, ver |-> old.ver + 1]

\* cnmf.py:56-62  mask_full: a short mask is extended with np.ones(...).astype(bool)
mask_full(N, m) ==
    IF N > Len(m) THEN m \o [i \in 1..(N - Len(m)) |-> TRUE] ELSE m

\* cnmf.py:53-64  the frame files that are read: zip(filenames, mask_full), "if not masked"
filenames_kept(N, mask) ==
    IF ~mask.given
    THEN 1..N
    ELSE LET mf == mask_full(N, mask.m)
         IN  {i \in 1..Min(N, Len(mf)) : ~mf[i]}

\* cnmf.py:69-70  read_raw()...[np.invert(mask), :, :]
\* np.invert(None) raises TypeError.  A boolean index whose length differs from the
\* number of frames raises IndexError in numpy >= 1.13; older numpy warns and uses
\* the positions of its True entries (IndexError if one is out of range).
raw_kept(N, mask) ==
    IF ~mask.given
    THEN {[ok |-> FALSE, frames |-> {}]}
    ELSE LET k == Len(mask.m)
             sel == {i \in 1..k : ~mask.m[i]}
         IN  IF k = N
             THEN {[ok |-> TRUE, frames |-> sel]}
             ELSE {[ok |-> FALSE, frames |-> {}]} \cup
                  (IF sel \subseteq 1..N THEN {[ok |-> TRUE, frames |-> sel]} ELSE {})

\* cnmf.py:51-70  the frames read, from the raw file when the dataset has one
read_frames(hasRaw, N, mask) ==
    IF ~hasRaw
    THEN {[ok |-> TRUE, frames |-> filenames_kept(N, mask)]}
    ELSE raw_kept(N, mask)

NeedsConversionAlways(f, force) == TRUE

\* cnmf.py:46  if not os.path.exists(dirname_comp + '_Y.npy') or force
NeedsConversion(f, force) == ~f.Y.exists \/ force

\* cnmf.py:45-81  tiffs_to_cnmf: the possible outcomes on the files f of one dataset
tiffs_to_cnmf(f, hasRaw, mask, force) ==
    IF NeedsConversion(f, force)
    THEN {IF r.ok
          THEN [ok |-> TRUE, wrote |-> TRUE,
                f |-> [f EXCEPT !.Y = NpySave(f.Y, r.frames),
                                !.Yr = NpySave(f.Yr, r.frames)]]
          ELSE [ok |-> FALSE, wrote |-> FALSE, f |-> f]
          : r \in read_frames(hasRaw, NumFrames, mask)}
    ELSE {[ok |-> TRUE, wrote |-> FALSE, f |-> f]}

(***************************************************************************)
(* The values the library computes.  A result is identified by what it was *)
(* computed from: the orchestrator, the parameters (p, nrois_init) and the *)
(* frames of the flattened matrix that was loaded.                         *)
(***************************************************************************)
NoTok == [fn |-> "none", par |-> <<0, 0>>, frames |-> {}]
Val(name, tok) == [v |-> name, of |-> tok]
NoVal == Val("none", NoTok)
NoBundle ==
    [exists |-> FALSE, ver |-> 0, A |-> NoVal, C |-> NoVal, YrA |-> NoVal,
     S |-> NoVal, bl |-> NoVal]
NoFiles == [Y |-> NoFile, Yr |-> NoFile, cnmf |-> NoBundle, proj |-> NoFile]

\* the inputs of the orchestrators that the model enumerates
Orchestrators == {"process_data", "process_data_patches"}
Params == {<<2, 400>>, <<1, 100>>}
RunMasks ==
    {NoMask, [given |-> TRUE, m |-> <<FALSE>>], [given |-> TRUE, m |-> <<FALSE, TRUE>>]}

WholeStagesMergeEarly ==
    << "preprocess_data", "initialize_components", "update_spatial_components",
       "merge_components", "update_temporal_components",
       "update_spatial_components", "update_temporal_components" >>

\* cnmf.py:126-184  the library calls of process_data, in program order
WholeStages ==
    << "preprocess_data", "initialize_components", "update_spatial_components",
       "update_temporal_components", "merge_components",
       "update_spatial_components", "update_temporal_components" >>

PatchStagesMergeFirst ==
    << "merge_components", "run_CNMF_patches", "update_spatial_components",
       "update_temporal_components" >>

\* cnmf.py:272-316  the library calls of process_data_patches, in program order
PatchStages ==
    << "run_CNMF_patches", "merge_components", "update_spatial_components",
       "update_temporal_components" >>

Stages(fn) == IF fn = "process_data" THEN WholeStages ELSE PatchStages

\* cnmf.py:126-187  the local names each library call of process_data reads
WholeReads ==
    << {"Yr"},
       {"Y"},
       {"Yr", "Cin", "f_in", "Ain", "sn"},
       {"Yr", "A", "b", "Cin", "f_in"},
       {"Yr", "A", "b", "C", "f", "S", "sn", "bl", "c1", "neurons_sn", "g"},
       {"Yr", "C_m", "f", "A_m", "sn"},
       {"Yr", "A2", "b2", "C2", "f"} >>

\* cnmf.py:126-184  the local names each library call of process_data assigns
WholeAssigns ==
    << {"Yr", "sn", "g", "psx"},
       {"Ain", "Cin", "b_in", "f_in", "center"},
       {"A", "b", "Cin"},
       {"C", "f", "S", "bl", "c1", "neurons_sn", "g", "YrA"},
       {"A_m", "C_m", "nr_m", "merged_ROIs", "S_m", "bl_m", "c1_m", "sn_m", "g_m"},
       {"A2", "b2", "C2"},
       {"C2", "f2", "S2", "bl2", "c12", "neurons_sn2", "g21", "YrA"} >>

\* cnmf.py:272-319  the local names each library call of process_data_patches reads
PatchReads ==
    << {"fname_new"},
       {"Yr", "A_tot", "C_tot"},
       {"Yr", "C_m", "f", "A_m", "sn_tot"},
       {"Yr", "A2", "b2", "C2", "f"} >>

\* cnmf.py:271-316  the local names each library call of process_data_patches assigns
PatchAssigns ==
    << {"A_tot", "C_tot", "b", "f", "sn_tot", "opt_out"},
       {"A_m", "C_m", "nr_m", "merged_ROIs", "S_m", "bl_m", "c1_m", "sn_m", "g_m"},
       {"A2", "b2", "C2"},
       {"C2", "f2", "S2", "bl2", "c12", "neurons_sn2", "g21", "YrA"} >>

Reads(fn) == IF fn = "process_data" THEN WholeReads ELSE PatchReads
Assigns(fn) == IF fn = "process_data" THEN WholeAssigns ELSE PatchAssigns

\* cnmf.py:91-100, 234-244  the local names bound when the first stage is called
BoundBeforeStages == {"Y", "Yr", "fname_new"}

\* cnmf.py:167, 301  the mx argument of merge_components: 100, or np.Inf
NoCap == [called |-> FALSE, bounded |-> FALSE, mx |-> 0]
MergeCap(fn) ==
    IF fn = "process_data"
    THEN [called |-> TRUE, bounded |-> TRUE, mx |-> 100]
    ELSE [called |-> TRUE, bounded |-> FALSE, mx |-> 0]

\* cnmf.py:42  NCPUS = int(mp.cpu_count()/2)
NCPUS(cpu_count) == cpu_count \div 2

\* cnmf.py:104, 248  n_pixels_per_process = d1*d2/NCPUS, kept as the fraction it
\* is; dividing by zero raises ZeroDivisionError and binds nothing
NoBudget == [defined |-> FALSE, num |-> 0, den |-> 1]
PixelsPerProcess(pixels, n) ==
    IF n = 0 THEN NoBudget ELSE [defined |-> TRUE, num |-> pixels, den |-> n]

VARIABLES
    files,        \* per dataset: the files <name>_Y.npy, _Yr.npy, _cnmf.mat, _proj.npy
    raw,          \* per dataset: haussio_data.rawfile is set and exists
    ncpus,        \* mp.cpu_count()
    server,       \* the ipyparallel backend is running
    pc,           \* the statement the controlling thread executes next
    cur,          \* the arguments of the current (or last) invocation
    loc,          \* the local variables of the run
    calls,        \* the calls the current (or last) invocation has made, in order
    ret,          \* what the last invocation returned, or that it raised
    runs,         \* the number of invocations so far
    tcall,        \* the last direct call of tiffs_to_cnmf
    cin,          \* contour(): its arguments A, d1, d2, thr
    ci,           \* contour(): the loop variable i
    coordinates,  \* contour(): the list it builds
    cprev,        \* contour(): the threshold and the result of the call before
    lin,          \* one conversion: the frame cube, its flattened matrix, a map
    rp,           \* two concurrent invocations: where each is, what they have seen
    last          \* per dataset: how the last invocation for it ended

vars == << files, raw, ncpus, server, pc, cur, loc, calls, ret, runs, tcall,
           cin, ci, coordinates, cprev, lin, rp, last >>

NoCur ==
    [d |-> 0, fn |-> "none", mask |-> NoMask, par |-> <<0, 0>>,
     entry |-> FALSE, bundle0 |-> NoBundle, Y0 |-> NoFile, resume |-> FALSE]
NoLoc ==
    [Y |-> {}, Yr |-> {}, k |-> 0, res |-> NoBundle, zproj |-> {}, srt |-> <<>>,
     bound |-> {}, mx |-> NoCap, n_pixels_per_process |-> NoBudget,
     n_processes |-> 0, engines |-> 0]
NoRet ==
    [status |-> "none", rois |-> NoVal, C |-> NoVal, zproj |-> {}, S |-> NoVal,
     Y |-> {}, YrA |-> NoVal, order |-> <<>>]
Raised == [NoRet EXCEPT !.status = "raised"]
NoTcall ==
    [mask |-> NoMask, force |-> FALSE, ok |-> FALSE, wrote |-> FALSE,
     before |-> NoFiles, prior |-> 0, completed |-> 0]
NoCin == [A |-> <<>>, d1 |-> 0, d2 |-> 0, thr |-> <<0, 1>>]

NoLin ==
    [stage |-> "none", d1 |-> 0, d2 |-> 0, T |-> 0, Y |-> <<>>, Yr |-> <<>>,
     t |-> 0, grid |-> <<>>]

cacheVars == << tcall, lin >>
NoPrev == [called |-> FALSE, thr |-> <<0, 1>>, coordinates |-> <<>>]

contourVars == << cin, ci, coordinates, cprev >>
envVars == << raw, ncpus >>

Procs == {1, 2}
NoRace ==
    [pc |-> [p \in Procs |-> "idle"], absent |-> 0, nobundle |-> 0, lost |-> 0,
     torn |-> {}]
raceVars == << rp >>

(***************************************************************************)
(* The orchestrators.  One action per statement that touches the files,    *)
(* the backend or the library; pc names the statement executed next.       *)
(***************************************************************************)
Init ==
    /\ files = [d \in Datasets |-> NoFiles]
    /\ raw \in {[d \in Datasets |-> FALSE], [d \in Datasets |-> d = 1]}
    /\ ncpus \in 1..MaxCpus
    /\ server \in BOOLEAN
    /\ pc = "idle"
    /\ cur = NoCur
    /\ loc = NoLoc
    /\ calls = <<>>
    /\ ret = NoRet
    /\ runs = 0
    /\ tcall = NoTcall
    /\ cin = NoCin
    /\ ci = 0
    /\ coordinates = <<>>
    /\ cprev = NoPrev
    /\ lin = NoLin
    /\ rp = NoRace
    /\ last = [d \in Datasets |-> "none"]

\* An exception leaves the function: nothing is returned, nothing is cleaned up.
Raise(what) ==
    /\ pc' = "idle"
    /\ ret' = Raised
    /\ loc' = NoLoc
    /\ last' = [last EXCEPT ![cur.d] = what]

\* cnmf.py:85-86, 228-229  process_data(...) or process_data_patches(...) is called
Invoke(d, fn, mask, par) ==
    /\ pc = "idle"
    /\ runs < MaxRuns
    /\ runs' = runs + 1
    /\ cur' = [d |-> d, fn |-> fn, mask |-> mask, par |-> par, entry |-> server,
               bundle0 |-> files[d].cnmf, Y0 |-> files[d].Y,
               resume |-> (last[d] = "stage raised")]
    /\ last' = [last EXCEPT ![d] = "running"]
    /\ pc' = "tiffs_to_cnmf"
    /\ calls' = <<>>
    /\ ret' = NoRet
    /\ loc' = NoLoc
    /\ UNCHANGED << files, server, envVars, raceVars, cacheVars, contourVars >>

\* cnmf.py:88, 231  tiffs_to_cnmf(haussio_data, mask)
EnsureCache ==
    /\ pc = "tiffs_to_cnmf"
    /\ \E out \in tiffs_to_cnmf(files[cur.d], raw[cur.d], cur.mask, FALSE) :
          /\ calls' = Append(calls, IF out.wrote THEN "convert" ELSE "tiffs_to_cnmf")
          /\ files' = [files EXCEPT ![cur.d] = out.f]
          /\ IF out.ok
             THEN pc' = "load_Y" /\ UNCHANGED << ret, loc, last >>
             ELSE Raise("raised")
    /\ UNCHANGED << server, cur, runs, envVars, raceVars, cacheVars, contourVars >>

BundleExistsNever(d) == FALSE

BundleExistsOwn(d) == files[d].cnmf.exists /\ files[d].cnmf.A.of.fn = cur.fn

RecomputeWithoutStop == "load_Yr"

\* cnmf.py:96, 239  the branch without a bundle begins with cse.utilities.stop_server()
RecomputeEntry == "stop_server_first"

ContourBeforeStop == "contour"

\* cnmf.py:217-222, 349-354  order_components is followed by stop_server, then contour
AfterOrderComponents == "stop_server_last"

\* cnmf.py:94, 237  os.path.exists(fn_cnmf)
BundleExists(d) == files[d].cnmf.exists

\* cnmf.py:89-94, 232-237  Y = np.load(..._Y.npy); if not os.path.exists(fn_cnmf)
LoadY ==
    /\ pc = "load_Y"
    /\ IF files[cur.d].Y.exists
       THEN /\ loc' = [loc EXCEPT !.Y = files[cur.d].Y.frames]
            /\ pc' = IF BundleExists(cur.d) THEN "loadmat" ELSE RecomputeEntry
            /\ UNCHANGED << ret, last >>
       ELSE Raise("raised")
    /\ UNCHANGED << files, server, cur, calls, runs, envVars, raceVars, cacheVars, contourVars >>

\* cnmf.py:96, 239  cse.utilities.stop_server()
StopServerFirst ==
    /\ pc = "stop_server_first"
    /\ server' = FALSE
    /\ calls' = Append(calls, "stop_server")
    /\ pc' = "load_Yr"
    /\ UNCHANGED << files, cur, loc, ret, runs, envVars, raceVars, cacheVars, contourVars, last >>

\* cnmf.py:100-119, 243-266  Yr = np.load(..._Yr.npy); n_pixels_per_process =
\* d1*d2/NCPUS; options = ...; options[...]['n_processes'] = NCPUS
LoadYr ==
    /\ pc = "load_Yr"
    /\ IF files[cur.d].Yr.exists /\ PixelsPerProcess(NumPixels, NCPUS(ncpus)).defined
       THEN /\ loc' = [loc EXCEPT !.Yr = files[cur.d].Yr.frames, !.k = 1,
                                   !.bound = BoundBeforeStages,
                                   !.n_pixels_per_process =
                                       PixelsPerProcess(NumPixels, NCPUS(ncpus)),
                                   !.n_processes = NCPUS(ncpus)]
            /\ pc' = "start_server"
            /\ UNCHANGED << ret, last >>
       ELSE Raise("raised")
    /\ UNCHANGED << files, server, cur, calls, runs, envVars, raceVars, cacheVars, contourVars >>

\* cnmf.py:121, 267  cse.utilities.start_server(NCPUS)
StartServer ==
    /\ pc = "start_server"
    /\ server' = TRUE
    /\ loc' = [loc EXCEPT !.engines = NCPUS(ncpus)]
    /\ calls' = Append(calls, "start_server")
    /\ pc' = "numeric"
    /\ UNCHANGED << files, cur, ret, runs, envVars, raceVars, cacheVars, contourVars, last >>

\* the bundle values A2, C2, YrA, S2, bl2 that the last stages return
Computed(fn, par, frames) ==
    LET tok == [fn |-> fn, par |-> par, frames |-> frames]
    IN  [exists |-> TRUE, ver |-> 0, A |-> Val("A2", tok), C |-> Val("C2", tok),
         YrA |-> Val("YrA", tok), S |-> Val("S2", tok), bl |-> Val("bl2", tok)]

\* the locals after the k-th library call returned; merge_components is given mx
AfterStage(l, fn, k) ==
    [l EXCEPT !.bound = l.bound \cup Assigns(fn)[k],
              !.mx = IF Stages(fn)[k] = "merge_components" THEN MergeCap(fn) ELSE l.mx]

\* cnmf.py:126-188, 272-320  the next library call returns (its arguments are
\* evaluated first: an unbound local would raise NameError instead)
StageReturns ==
    /\ pc = "numeric"
    /\ Reads(cur.fn)[loc.k] \subseteq loc.bound
    /\ calls' = Append(calls, Stages(cur.fn)[loc.k])
    /\ IF loc.k = Len(Stages(cur.fn))
       THEN /\ loc' = [AfterStage(loc, cur.fn, loc.k) EXCEPT
                          !.res = Computed(cur.fn, cur.par, loc.Yr)]
            /\ pc' = "savemat"
       ELSE /\ loc' = [AfterStage(loc, cur.fn, loc.k) EXCEPT !.k = loc.k + 1]
            /\ pc' = "numeric"
    /\ UNCHANGED << files, server, cur, ret, runs, envVars, raceVars, cacheVars, contourVars, last >>

StageRaisesAndStops ==
    /\ pc = "numeric"
    /\ calls' = Append(calls, Stages(cur.fn)[loc.k])
    /\ Raise("stage raised")
    /\ server' = FALSE
    /\ UNCHANGED << files, cur, runs, envVars, raceVars, cacheVars, contourVars >>

\* cnmf.py:126-188, 272-320  the next library call raises: nothing catches it
StageRaises ==
    /\ pc = "numeric"
    /\ calls' = Append(calls, Stages(cur.fn)[loc.k])
    /\ Raise("stage raised")
    /\ UNCHANGED << files, server, cur, runs, envVars, raceVars, cacheVars, contourVars >>

\* cnmf.py:196, 328  savemat(fn_cnmf, {"A": A2, "C": C2, "YrA": YrA, "S": S2, "bl": bl2})
SaveMat ==
    /\ pc = "savemat"
    /\ files' = [files EXCEPT ![cur.d].cnmf =
                    [loc.res EXCEPT !.ver = files[cur.d].cnmf.ver + 1]]
    /\ calls' = Append(calls, "savemat")
    /\ pc' = "proj"
    /\ UNCHANGED << server, cur, loc, ret, runs, envVars, raceVars, cacheVars, contourVars, last >>

\* cnmf.py:198-203, 330-335  resdict = loadmat(fn_cnmf); A2 = resdict["A"]; ...
LoadMat ==
    /\ pc = "loadmat"
    /\ loc' = [loc EXCEPT !.res = files[cur.d].cnmf]
    /\ calls' = Append(calls, "loadmat")
    /\ pc' = "proj"
    /\ UNCHANGED << files, server, cur, ret, runs, envVars, raceVars, cacheVars, contourVars, last >>

\* cnmf.py:205-210, 337-342  the projection image is computed and saved, or loaded
Proj ==
    /\ pc = "proj"
    /\ IF ~files[cur.d].proj.exists
       THEN /\ loc' = [loc EXCEPT !.zproj = loc.Y]
            /\ files' = [files EXCEPT ![cur.d].proj = NpySave(@, loc.Y)]
       ELSE /\ loc' = [loc EXCEPT !.zproj = files[cur.d].proj.frames]
            /\ UNCHANGED files
    /\ pc' = "order_components"
    /\ UNCHANGED << server, cur, calls, ret, runs, envVars, raceVars, cacheVars, contourVars, last >>

\* The components of a bundle are the columns of A and the rows of C, numbered
\* in the order in which the bundle stores them.
Components == 1..NumComponents

\* column j of A2 and row j of C2 hold component j
StoredOrder == [i \in Components |-> i]

\* cse.order_components(A2, C2) returns A2[:, srt], C2[srt, :] and srt, where
\* srt is the permutation its criterion gives for the data at hand
Orderings == Permutations(Components)

\* cnmf.py:217, 349  A_or, C_or, srt = cse.order_components(A2, C2)
\* (A_or and C_or are not read again; srt stands for the three of them)
OrderComponents ==
    /\ pc = "order_components"
    /\ calls' = Append(calls, "order_components")
    /\ \E srt \in Orderings : loc' = [loc EXCEPT !.srt = srt]
    /\ pc' = AfterOrderComponents
    /\ UNCHANGED << files, server, cur, ret, runs, envVars, raceVars, cacheVars, contourVars, last >>

\* cnmf.py:220, 352  cse.utilities.stop_server()
StopServerLast ==
    /\ pc = "stop_server_last"
    /\ server' = FALSE
    /\ calls' = Append(calls, "stop_server")
    /\ pc' = "contour"
    /\ UNCHANGED << files, cur, loc, ret, runs, envVars, raceVars, cacheVars, contourVars, last >>

\* cnmf.py:222-225, 354-357  polygons = contour(A2, d1, d2, thr=0.9); rois = ...;
\* return rois, C2, zproj, S2, Y, YrA
\* (polygon i is traced from column i of A2, row i of the traces is row i of C2:
\* ret.order[i] is the component that position i of both belongs to)
ContourAndReturn ==
    /\ pc = "contour"
    /\ calls' = Append(calls, "contour")
    /\ ret' = [status |-> "returned", rois |-> Val("rois", loc.res.A.of),
               C |-> loc.res.C, zproj |-> loc.zproj, S |-> loc.res.S, Y |-> loc.Y,
               YrA |-> loc.res.YrA, order |-> StoredOrder]
    /\ pc' = "idle"
    /\ loc' = NoLoc
    /\ last' = [last EXCEPT ![cur.d] = "returned"]
    /\ UNCHANGED << files, server, cur, runs, envVars, raceVars, cacheVars, contourVars >>

Next ==
    \/ \E d \in Datasets, fn \in Orchestrators, mask \in RunMasks, par \in Params :
          Invoke(d, fn, mask, par)
    \/ EnsureCache
    \/ LoadY
    \/ StopServerFirst
    \/ LoadYr
    \/ StartServer
    \/ StageReturns
    \/ StageRaises
    \/ SaveMat
    \/ LoadMat
    \/ Proj
    \/ OrderComponents
    \/ StopServerLast
    \/ ContourAndReturn

Spec == Init /\ [][Next]_vars

(***************************************************************************)
(* Properties of the orchestrators.                                        *)
(***************************************************************************)
Range(q) == {q[i] : i \in DOMAIN q}
Last(q) == q[Len(q)]
IsPrefix(a, b) == Len(a) <= Len(b) /\ \A i \in 1..Len(a) : a[i] = b[i]

NumericStageNames ==
    {"preprocess_data", "initialize_components", "update_spatial_components",
     "update_temporal_components", "merge_components", "run_CNMF_patches"}
IsNumericStage(c) == c \in NumericStageNames
NumericCalls == SelectSeq(calls, IsNumericStage)

\* C1 (bundle replay): when <name>_cnmf.mat exists at the time process_data or
\* process_data_patches is invoked, the run makes no numeric-stage call, and the
\* C, S and YrA it returns are the values stored in that bundle, whatever p,
\* nrois_init and mask are.
C1_BundleReplay ==
    cur.bundle0.exists =>
        /\ Range(calls) \cap NumericStageNames = {}
        /\ ret.status = "returned" =>
              /\ ret.C = cur.bundle0.C
              /\ ret.S = cur.bundle0.S
              /\ ret.YrA = cur.bundle0.YrA

\* a replay that returned, invoked through the other orchestrator and with other
\* parameters and another mask than the run that wrote the bundle
C1_Witness ==
    /\ cur.bundle0.exists
    /\ ret.status = "returned"
    /\ cur.fn # cur.bundle0.C.of.fn
    /\ cur.par # cur.bundle0.C.of.par
    /\ filenames_kept(NumFrames, cur.mask) # cur.bundle0.C.of.frames

C2_ClaimedOrder ==
    << "preprocess_data", "initialize_components", "update_spatial_components",
       "update_temporal_components", "merge_components",
       "update_spatial_components", "update_temporal_components" >>

\* C2 (stage ordering, whole-frame path): in a run of process_data that finds no
\* bundle the library calls are made in the order preprocess_data,
\* initialize_components, update_spatial_components, update_temporal_components,
\* merge_components, update_spatial_components, update_temporal_components, once
\* each; the bundle is written only after the last of them, and a run that
\* returns has made all of them.
C2_StageOrdering ==
    (cur.fn = "process_data" /\ ~cur.bundle0.exists) =>
        /\ IsPrefix(NumericCalls, C2_ClaimedOrder)
        /\ (pc = "savemat" \/ "savemat" \in Range(calls)) =>
              NumericCalls = C2_ClaimedOrder
        /\ ret.status = "returned" =>
              (NumericCalls = C2_ClaimedOrder /\ "savemat" \in Range(calls))

C2_Witness ==
    /\ cur.fn = "process_data"
    /\ ~cur.bundle0.exists
    /\ ret.status = "returned"
    /\ files[cur.d].cnmf.exists

\* C3 (stop before start): start_server is never called while the backend is
\* running, also after an invocation that a stage failure aborted with the backend
\* running, and after every invocation that returns the backend is stopped.
C3_StopBeforeStart ==
    /\ pc = "start_server" => ~server
    /\ (pc = "idle" /\ ret.status = "returned") => ~server

\* the backend has just been started in a run that found it running, left there
\* by the stage failure of the previous invocation for the dataset
C3_Witness ==
    /\ cur.entry
    /\ cur.resume
    /\ calls # <<>>
    /\ Last(calls) = "start_server"
    /\ server

\* C4 as stated: the backend is not running when the cache is converted, when the
\* bundle is written or read, or when contour() runs; it runs only between the
\* first and the last numeric stage.
C4_BackendOnlyAroundStages ==
    /\ (pc = "tiffs_to_cnmf" /\ NeedsConversion(files[cur.d], FALSE)) => ~server
    /\ pc \in {"savemat", "loadmat", "contour"} => ~server
    /\ (pc # "idle" /\ server) => pc = "numeric"

\* C4 as amended: the backend is not running when contour() runs; it is running
\* when the bundle is written; when the cache is converted or the bundle is read
\* it is in the state in which the invocation found it; and in a run that found
\* it stopped it runs exactly from start_server to the stop_server before contour().
C4_BackendAmended ==
    /\ pc = "contour" => ~server
    /\ pc = "savemat" => server
    /\ pc \in {"tiffs_to_cnmf", "loadmat"} => server = cur.entry
    /\ (pc # "idle" /\ ~cur.entry) =>
          (server <=>
              \/ pc \in {"numeric", "savemat"}
              \/ (pc \in {"proj", "order_components", "stop_server_last"}
                    /\ "start_server" \in Range(calls)))

\* contour() is about to run in an invocation that found the backend running,
\* converted the cache and wrote the bundle
C4_Witness ==
    /\ pc = "contour"
    /\ cur.entry
    /\ "convert" \in Range(calls)
    /\ "savemat" \in Range(calls)

C10_ClaimedPatchOrder ==
    << "run_CNMF_patches", "merge_components", "update_spatial_components",
       "update_temporal_components" >>

\* C10 (failure propagation and resume): when a numeric stage raises, the
\* invocation raises without a result, no bundle has been written, the cache
\* files are in place and the backend is left running; the next invocation for
\* the dataset does not convert the cache again and makes the numeric calls of its
\* orchestrator from the first one on, all of them if it returns.
C10_FailureAndResume ==
    /\ \A d \in Datasets :
          (last[d] = "stage raised") =>
              /\ ~files[d].cnmf.exists
              /\ files[d].Y.exists /\ files[d].Yr.exists
    /\ (pc = "idle" /\ cur.d \in Datasets /\ last[cur.d] = "stage raised") =>
          /\ ret = Raised
          /\ server
          /\ calls # <<>> /\ Last(calls) \in NumericStageNames
    /\ cur.resume =>
          /\ "convert" \notin Range(calls)
          /\ files[cur.d].Y = cur.Y0
          /\ "loadmat" \notin Range(calls)
          /\ IsPrefix(NumericCalls,
                      IF cur.fn = "process_data" THEN C2_ClaimedOrder
                      ELSE C10_ClaimedPatchOrder)
          /\ ret.status = "returned" =>
                Len(NumericCalls) = IF cur.fn = "process_data" THEN 7 ELSE 4

\* an invocation that resumed after a stage failure has returned
C10_Witness ==
    /\ cur.resume
    /\ ret.status = "returned"
    /\ Len(NumericCalls) >= 4

\* C11 (ordering of the result): when process_data or process_data_patches
\* returns, entry i of the returned ROI list and row i of the returned traces
\* belong to the component that order_components placed at position i.
C11_ResultOrdered ==
    [][pc = "contour" /\ pc' = "idle" => ret'.order = loc.srt]_vars

\* C12 (write-once bundle): over any sequence of invocations of the two
\* orchestrators for a dataset, some of them aborted, <name>_cnmf.mat is written
\* at most once, by the first invocation whose numeric stages all return, and is
\* neither overwritten nor deleted afterwards; a run that finds a bundle, written
\* by whichever orchestrator, leaves it as it is and returns its values.
C12_WriteOnce ==
    /\ \A d \in Datasets :
          /\ files[d].cnmf.ver <= 1
          /\ files[d].cnmf.exists <=> files[d].cnmf.ver = 1
    /\ cur.bundle0.exists =>
          /\ files[cur.d].cnmf = cur.bundle0
          /\ "savemat" \notin Range(calls)
          /\ ret.status = "returned" =>
                /\ ret.rois.of = cur.bundle0.A.of
                /\ ret.C = cur.bundle0.C
                /\ ret.S = cur.bundle0.S
                /\ ret.YrA = cur.bundle0.YrA
    /\ (cur.d \in Datasets /\ ~cur.bundle0.exists) =>
          /\ files[cur.d].cnmf.exists <=> "savemat" \in Range(calls)
          /\ "savemat" \in Range(calls) => NumericCalls = Stages(cur.fn)
          /\ (/\ NumericCalls = Stages(cur.fn)
              /\ pc # "savemat"
              /\ last[cur.d] # "stage raised") => files[cur.d].cnmf.exists

\* a bundle written once by one orchestrator, found and replayed by the other
C12_Witness ==
    /\ cur.bundle0.exists
    /\ cur.bundle0.A.of.fn # cur.fn
    /\ files[cur.d].cnmf.ver = 1
    /\ ret.status = "returned"

\* C19 (worker sizing): for every number n >= 1 of processing units, a run that
\* finds no bundle and has loaded the flattened matrix obtains a defined
\* per-process pixel budget d1*d2 / floor(n/2), passes floor(n/2) as n_processes
\* and starts the backend with floor(n/2) engines.
C19_WorkerSizing ==
    (/\ cur.d \in Datasets
     /\ ~cur.bundle0.exists
     /\ "stop_server" \in Range(calls)
     /\ files[cur.d].Yr.exists
     /\ pc # "load_Yr") =>
        /\ pc = "start_server" \/ "start_server" \in Range(calls)
        /\ pc \in {"start_server", "numeric"} =>
              /\ loc.n_pixels_per_process.defined
              /\ loc.n_pixels_per_process.num = NumPixels
              /\ loc.n_pixels_per_process.den = ncpus \div 2
              /\ loc.n_processes = ncpus \div 2
        /\ pc = "numeric" => loc.engines = ncpus \div 2

C13_ClaimedCalls ==
    << "stop_server", "start_server", "run_CNMF_patches", "merge_components",
       "update_spatial_components", "update_temporal_components", "savemat",
       "stop_server" >>
C13_IsClaimed(c) == c \in Range(C13_ClaimedCalls)

\* C13 (stage ordering, patched path): in a run of process_data_patches that
\* finds no bundle the calls stop_server, start_server, run_CNMF_patches,
\* merge_components, update_spatial_components, update_temporal_components,
\* savemat, stop_server are made in that order, once each, and a run that returns
\* has made all of them; merge_components is given no finite merge-size cap; the
\* calls after run_CNMF_patches are made after it returned and read what it
\* assigned.
C13_PatchedOrdering ==
    (cur.fn = "process_data_patches" /\ ~cur.bundle0.exists) =>
        LET made == SelectSeq(calls, C13_IsClaimed)
        IN  /\ IsPrefix(made, C13_ClaimedCalls)
            /\ ret.status = "returned" => made = C13_ClaimedCalls
            /\ loc.mx.called => ~loc.mx.bounded
            /\ (pc = "numeric" /\ loc.k > 1) =>
                  /\ "run_CNMF_patches" \in Range(calls)
                  /\ PatchAssigns[1] \subseteq loc.bound
                  /\ Reads(cur.fn)[loc.k] \cap PatchAssigns[1] # {}
                  /\ Reads(cur.fn)[loc.k] \subseteq loc.bound

\* a patched run that computed, wrote the bundle and returned
C13_Witness ==
    /\ cur.fn = "process_data_patches"
    /\ ~cur.bundle0.exists
    /\ ret.status = "returned"
    /\ Len(calls) > Len(C13_ClaimedCalls)

(***************************************************************************)
(* The array cache on its own: tiffs_to_cnmf called directly, with any     *)
(* mask and force, on a dataset whose cache directory starts in any of     *)
(* its four states.                                                        *)
(***************************************************************************)
AllFrames == [exists |-> TRUE, frames |-> 1..NumFrames, ver |-> 0]

InitCache ==
    /\ \E y \in {NoFile, AllFrames}, yr \in {NoFile, AllFrames} :
          files = [d \in Datasets |->
                      IF d = 1 THEN [NoFiles EXCEPT !.Y = y, !.Yr = yr] ELSE NoFiles]
    /\ raw \in {[d \in Datasets |-> FALSE], [d \in Datasets |-> d = 1]}
    /\ ncpus = 1
    /\ server = FALSE
    /\ pc = "idle"
    /\ cur = NoCur
    /\ loc = NoLoc
    /\ calls = <<>>
    /\ ret = NoRet
    /\ runs = 0
    /\ tcall = NoTcall
    /\ cin = NoCin
    /\ ci = 0
    /\ coordinates = <<>>
    /\ cprev = NoPrev
    /\ lin = NoLin
    /\ rp = NoRace
    /\ last = [d \in Datasets |-> "none"]

\* cnmf.py:45-81  tiffs_to_cnmf(haussio_data, mask, force) for dataset 1
CallTiffsToCnmf(mask, force) ==
    /\ runs < MaxRuns
    /\ runs' = runs + 1
    /\ \E out \in tiffs_to_cnmf(files[1], raw[1], mask, force) :
          /\ files' = [files EXCEPT ![1] = out.f]
          /\ tcall' = [mask |-> mask, force |-> force, ok |-> out.ok,
                       wrote |-> out.wrote, before |-> files[1],
                       prior |-> tcall.completed,
                       completed |-> tcall.completed + (IF out.ok THEN 1 ELSE 0)]
    /\ UNCHANGED << server, pc, cur, loc, calls, ret, envVars, raceVars, contourVars, lin, last >>

NextCache == \E mask \in Masks, force \in BOOLEAN : CallTiffsToCnmf(mask, force)

SpecCache == InitCache /\ [][NextCache]_vars

PadKeep(N, mask) ==
    [given |-> TRUE, m |-> mask.m \o [i \in 1..(N - Len(mask.m)) |-> FALSE]]

\* C5 (mask padding): when the frames are read from the frame-file list (N frames)
\* with a mask of length k < N, the frames kept are those kept for the mask of
\* length N that appends FALSE (keep) for k..N-1; every frame from k on is kept.
C5_MaskPadding ==
    (/\ runs > 0
     /\ ~raw[1]
     /\ tcall.wrote
     /\ tcall.mask.given
     /\ Len(tcall.mask.m) < NumFrames) =>
        /\ files[1].Y.frames = filenames_kept(NumFrames, PadKeep(NumFrames, tcall.mask))
        /\ (Len(tcall.mask.m) + 1)..NumFrames \subseteq files[1].Y.frames

\* C6 (cache postcondition): from any state of the cache directory and for any
\* force, both <name>_Y.npy and <name>_Yr.npy exist when tiffs_to_cnmf returns, and
\* it skips the conversion only if both existed and force is not set.
C6_CachePostcondition ==
    (runs > 0 /\ tcall.ok) =>
        /\ files[1].Y.exists /\ files[1].Yr.exists
        /\ ~tcall.wrote =>
              (tcall.before.Y.exists /\ tcall.before.Yr.exists /\ ~tcall.force)

\* C7 (idempotent cache): once a call of tiffs_to_cnmf has completed for the
\* dataset, a further call without force, with whatever mask, writes neither file
\* and leaves both as they were.
C7_IdempotentCache ==
    (runs > 0 /\ tcall.prior >= 1 /\ ~tcall.force) =>
        /\ tcall.ok
        /\ ~tcall.wrote
        /\ files[1] = tcall.before

\* a second call without force has returned, given a mask for which a conversion
\* would have written other frames than the cache holds
C7_Witness ==
    /\ tcall.prior >= 1
    /\ ~tcall.force
    /\ tcall.ok
    /\ ~raw[1]
    /\ files[1].Y.exists /\ files[1].Yr.exists
    /\ files[1].Y.ver >= 1
    /\ files[1].Y.frames # filenames_kept(NumFrames, tcall.mask)

\* C17 (optional mask, raw-source path): for a dataset that has a raw file, a
\* converting call of tiffs_to_cnmf without a mask completes and caches every
\* frame, and one with a mask of one entry per frame completes and caches exactly
\* the frames whose entry is false.
C17_RawMaskOptional ==
    (runs > 0 /\ raw[1] /\ NeedsConversion(tcall.before, tcall.force)) =>
        /\ ~tcall.mask.given =>
              /\ tcall.ok
              /\ files[1].Y.frames = 1..NumFrames
              /\ files[1].Yr.frames = 1..NumFrames
        /\ (tcall.mask.given /\ Len(tcall.mask.m) = NumFrames) =>
              /\ tcall.ok
              /\ files[1].Y.frames = {i \in 1..NumFrames : ~tcall.mask.m[i]}
              /\ files[1].Yr.frames = {i \in 1..NumFrames : ~tcall.mask.m[i]}

(***************************************************************************)
(* contour(A, d1, d2, thr).  A is the sequence of its columns, a column    *)
(* the sequence of its d = d1*d2 weights; thr is the fraction thr[1]/thr[2].*)
(* Pixel k (from 0) is element k+1 of a column.                            *)
(***************************************************************************)
GridShapes == {<<2, 2>>}
Thresholds == {<<1, 2>>, <<9, 10>>}
\* the matrices A that are enumerated: every single column with weights up to
\* MaxWeight, and every matrix of up to MaxCols columns with weights 0 and 1
Weights == 0..MaxWeight
Columns(d) == [1..d -> Weights]
BinaryColumns(d) == [1..d -> {0, 1}]
Matrices(d) ==
    {<<a>> : a \in Columns(d)} \cup
    UNION {[1..nr -> BinaryColumns(d)] : nr \in 0..MaxCols}

RankOfAscending(a, k) ==
    1 + Cardinality({j \in DOMAIN a : a[j] < a[k] \/ (a[j] = a[k] /\ j < k)})

\* cnmf.py:374  indx = np.argsort(A[:, i], axis=None)[::-1]: the position (from 1)
\* of pixel k in indx.  argsort is ascending and, on arrays this small, stable, so
\* after the reversal equal weights come in descending pixel order.
RankOf(a, k) ==
    1 + Cardinality({j \in DOMAIN a : a[j] > a[k] \/ (a[j] = a[k] /\ j > k)})

RECURSIVE SumSq(_, _)
SumSq(a, S) ==
    IF S = {} THEN 0
    ELSE LET j == CHOOSE x \in S : TRUE IN a[j] * a[j] + SumSq(a, S \ {j})

\* cnmf.py:375  cumEn = np.cumsum(A[:, i].flatten()[indx]**2), at the position of pixel k
cumEn(a, k) == SumSq(a, {j \in DOMAIN a : RankOf(a, j) <= RankOf(a, k)})

\* cnmf.py:376-378  cumEn /= cumEn[-1]; Bvec[indx] = cumEn.  A value is the fraction
\* num/den; float division 0.0/0.0 gives nan (a RuntimeWarning, no exception).
Bvec(a) ==
    LET total == SumSq(a, DOMAIN a)
    IN  [k \in DOMAIN a |-> [nan |-> (total = 0), num |-> cumEn(a, k), den |-> total]]

\* cnmf.py:379  Bmat = np.reshape(Bvec, (d1, d2), order='F'): Bmat[r, c] = Bvec[r + d1*c]
Bmat(B, d1, r, c) == B[r + d1 * c + 1]

\* the tracer's test "z > level"; every comparison with nan is false
AboveLevel(z, thr) == ~z.nan /\ z.num * thr[2] > thr[1] * z.den

(***************************************************************************)
(* cnmf.py:380-381  cntr = _cntr.Cntr(y, x, Bmat); cs = cntr.trace(thr).   *)
(* The tracer of matplotlib follows the level through the cells of the     *)
(* grid: a contour line has one vertex on every grid edge whose two ends   *)
(* lie on different sides of the level, and a closed line repeats its      *)
(* first vertex.  A vertex is identified here by the edge it lies on,      *)
(* <<r1, c1, r2, c2>>; where on the edge it lies is left out.              *)
(***************************************************************************)
GridEdges(d1, d2) ==
    {<<r, c, r, c + 1>> : r \in 0..(d1 - 1), c \in 0..(d2 - 2)} \cup
    {<<r, c, r + 1, c>> : r \in 0..(d1 - 2), c \in 0..(d2 - 1)}

Crosses(B, d1, thr, e) ==
    AboveLevel(Bmat(B, d1, e[1], e[2]), thr) # AboveLevel(Bmat(B, d1, e[3], e[4]), thr)

CrossedEdges(B, d1, d2, thr) == {e \in GridEdges(d1, d2) : Crosses(B, d1, thr, e)}

\* the edges of the cell whose upper left corner is <<r, c>>
CellEdges(r, c) ==
    {<<r, c, r, c + 1>>, <<r + 1, c, r + 1, c + 1>>, <<r, c, r + 1, c>>,
     <<r, c + 1, r + 1, c + 1>>}

EdgeEnds(e) == {<<e[1], e[2]>>, <<e[3], e[4]>>}

\* two crossed edges of one cell are consecutive vertices of a line; in a cell with
\* four crossed edges (a saddle) those two are that meet in a corner above the level
Joined(B, d1, d2, thr, e, f) ==
    /\ e # f
    /\ \E r \in 0..(d1 - 2), c \in 0..(d2 - 2) :
          LET X == CellEdges(r, c) \cap CrossedEdges(B, d1, d2, thr)
          IN  /\ e \in X /\ f \in X
              /\ \/ Cardinality(X) = 2
                 \/ \E q \in EdgeEnds(e) \cap EdgeEnds(f) :
                       AboveLevel(Bmat(B, d1, q[1], q[2]), thr)

RECURSIVE LineThrough(_, _, _, _, _)
LineThrough(B, d1, d2, thr, L) ==
    LET more == {f \in CrossedEdges(B, d1, d2, thr) :
                    \E e \in L : Joined(B, d1, d2, thr, e, f)}
    IN  IF more \subseteq L THEN L ELSE LineThrough(B, d1, d2, thr, L \cup more)

EdgeKey(d1, d2, e) == (e[1] * d2 + e[2]) * (d1 * d2) + (e[3] * d2 + e[4])

FirstEdge(d1, d2, E) ==
    CHOOSE e \in E : \A f \in E : EdgeKey(d1, d2, e) <= EdgeKey(d1, d2, f)

RECURSIVE EdgeSeq(_, _, _)
EdgeSeq(d1, d2, E) ==
    IF E = {} THEN <<>>
    ELSE LET e == FirstEdge(d1, d2, E) IN <<e>> \o EdgeSeq(d1, d2, E \ {e})

RECURSIVE CountLines(_, _, _, _, _)
CountLines(B, d1, d2, thr, X) ==
    IF X = {} THEN 0
    ELSE 1 + CountLines(B, d1, d2, thr,
                        X \ LineThrough(B, d1, d2, thr, {FirstEdge(d1, d2, X)}))

\* cs = cntr.trace(thr): the number of lines found and the vertices of the first
trace(B, d1, d2, thr) ==
    LET X == CrossedEdges(B, d1, d2, thr)
    IN  IF X = {}
        THEN [n |-> 0, first |-> <<>>]
        ELSE LET L == LineThrough(B, d1, d2, thr, {FirstEdge(d1, d2, X)})
                 closed == \A e \in L :
                              Cardinality({f \in L : Joined(B, d1, d2, thr, e, f)}) = 2
                 q == EdgeSeq(d1, d2, L)
             IN  [n |-> CountLines(B, d1, d2, thr, X),
                  first |-> IF closed THEN Append(q, q[1]) ELSE q]

FallbackEmpty == [kind |-> "fallback", pts |-> <<>>]

\* cnmf.py:385  coordinates.append([[0, 0, 0], [0, 0, 0], [0, 0, 0]])
Fallback == [kind |-> "fallback", pts |-> << <<0, 0, 0>>, <<0, 0, 0>>, <<0, 0, 0>> >>]

\* cnmf.py:374-385  one pass of the loop body: what is appended for column a
ContourOf(a, d1, d2, thr) ==
    LET cs == trace(Bvec(a), d1, d2, thr)
    IN  IF cs.n > 0 THEN [kind |-> "traced", pts |-> cs.first] ELSE Fallback

InitContour ==
    /\ \E g \in GridShapes, thr \in Thresholds :
          \E A \in Matrices(g[1] * g[2]) :
             cin = [A |-> A, d1 |-> g[1], d2 |-> g[2], thr |-> thr]
    /\ ci = 0
    /\ coordinates = <<>>
    /\ cprev = NoPrev
    /\ lin = NoLin
    /\ rp = NoRace
    /\ pc = "contour_loop"
    /\ files = [d \in Datasets |-> NoFiles]
    /\ raw = [d \in Datasets |-> FALSE]
    /\ ncpus = 1
    /\ server = FALSE
    /\ cur = NoCur
    /\ loc = NoLoc
    /\ calls = <<>>
    /\ ret = NoRet
    /\ runs = 0
    /\ tcall = NoTcall
    /\ last = [d \in Datasets |-> "none"]

\* cnmf.py:373-385  for i in range(nr): one iteration
ContourStep ==
    /\ pc = "contour_loop"
    /\ ci < Len(cin.A)
    /\ coordinates' =
          Append(coordinates, ContourOf(cin.A[ci + 1], cin.d1, cin.d2, cin.thr))
    /\ ci' = ci + 1
    /\ UNCHANGED << files, server, pc, cur, loc, calls, ret, runs, envVars, raceVars, cacheVars,
                    cin, cprev, last >>

\* cnmf.py:387  return coordinates
ContourReturn ==
    /\ pc = "contour_loop"
    /\ ci = Len(cin.A)
    /\ pc' = "contour_done"
    /\ UNCHANGED << files, server, cur, loc, calls, ret, runs, envVars, raceVars, cacheVars,
                    contourVars, last >>

NextContour == ContourStep \/ ContourReturn

SpecContour == InitContour /\ [][NextContour]_vars

\* C8 (contour count): contour(A, d1, d2, thr) returns one entry per column of A,
\* entry i derived from column i, and every entry, traced or fallback, has at
\* least 3 points.
C8_ContourCount ==
    pc = "contour_done" =>
        /\ Len(coordinates) = Len(cin.A)
        /\ \A i \in 1..Len(coordinates) :
              /\ coordinates[i] = ContourOf(cin.A[i], cin.d1, cin.d2, cin.thr)
              /\ Len(coordinates[i].pts) >= 3

\* C9 (degenerate component): for a column that is all zero, or for which the
\* tracer finds no line, contour() appends the placeholder of three points at the
\* origin, and it goes on to the remaining columns and returns.
C9_DegenerateComponent ==
    /\ Len(coordinates) = ci
    /\ pc = "contour_done" => ci = Len(cin.A)
    /\ \A i \in 1..Len(coordinates) :
          (\/ \A k \in DOMAIN cin.A[i] : cin.A[i][k] = 0
           \/ CrossedEdges(Bvec(cin.A[i]), cin.d1, cin.d2, cin.thr) = {}) =>
              coordinates[i] =
                 [kind |-> "fallback", pts |-> << <<0, 0, 0>>, <<0, 0, 0>>, <<0, 0, 0>> >>]

\* contour() has returned for a matrix whose first column is all zero and whose
\* second column has a traced line
C9_Witness ==
    /\ pc = "contour_done"
    /\ Len(cin.A) = 2
    /\ \A k \in DOMAIN cin.A[1] : cin.A[1][k] = 0
    /\ coordinates[1].kind = "fallback"
    /\ coordinates[2].kind = "traced"

\* C18 (inclusion-depth map): for every column of A with non-zero total squared
\* weight that contour() has processed, the map gives each pixel one value, the
\* sum of the squared weights of the pixels ranked before it and of itself in
\* descending weight order, divided by the total: a pixel of larger weight has
\* no larger depth, every depth lies in [0, 1], the ranks are a permutation of
\* the pixels, and the pixel ranked last has depth exactly 1.
C18_InclusionDepth ==
    \A i \in 1..ci :
        LET a == cin.A[i]
            B == Bvec(a)
            total == SumSq(a, DOMAIN a)
            heavier(p) == {j \in DOMAIN a : a[j] > a[p]}
            notLighter(p) == {j \in DOMAIN a : a[j] >= a[p]}
        IN  total # 0 =>
              /\ DOMAIN B = DOMAIN a
              /\ {RankOf(a, p) : p \in DOMAIN a} = 1..Len(a)
              /\ \A p \in DOMAIN a :
                    /\ ~B[p].nan /\ B[p].den = total
                    /\ B[p].num >= SumSq(a, heavier(p)) + a[p] * a[p]
                    /\ B[p].num <= SumSq(a, notLighter(p))
                    /\ B[p].num =
                          SumSq(a, {j \in DOMAIN a : RankOf(a, j) < RankOf(a, p)})
                          + a[p] * a[p]
                    /\ 0 <= B[p].num /\ B[p].num <= B[p].den
                    /\ RankOf(a, p) = Len(a) => B[p].num = B[p].den
                    /\ \A q \in DOMAIN a :
                          a[p] > a[q] => B[p].num * B[q].den <= B[q].num * B[p].den

\* contour() has processed a column that holds every weight, zero included
C18_Witness ==
    /\ ci >= 1
    /\ {cin.A[1][k] : k \in DOMAIN cin.A[1]} = Weights
    /\ pc = "contour_done"

(***************************************************************************)
(* contour() called twice for one component, the second time with a        *)
(* threshold that is not smaller.  The components are those that vanish on *)
(* the border of the field of view, so every line that is traced is closed.*)
(***************************************************************************)
BlobGrid == <<3, 4>>
Levels == {<<2, 5>>, <<9, 10>>, <<1, 1>>}
LevelLeq(s, t) == s[1] * t[2] <= t[1] * s[2]

Pixels(d1, d2) == (0..(d1 - 1)) \X (0..(d2 - 1))
Border(d1, d2) ==
    {q \in Pixels(d1, d2) : q[1] \in {0, d1 - 1} \/ q[2] \in {0, d2 - 1}}
\* cnmf.py:379  the pixel that element k (from 1) of a column is, order='F'
PixelOf(d1, k) == <<(k - 1) % d1, (k - 1) \div d1>>

Blobs(d1, d2) ==
    {[k \in 1..(d1 * d2) |->
         IF PixelOf(d1, k) \in Border(d1, d2) THEN 0 ELSE w[PixelOf(d1, k)]] :
       w \in [Pixels(d1, d2) \ Border(d1, d2) -> Weights]}
    \ {[k \in 1..(d1 * d2) |-> 0]}

InitThreshold ==
    /\ \E a \in Blobs(BlobGrid[1], BlobGrid[2]), thr \in Levels :
          cin = [A |-> <<a>>, d1 |-> BlobGrid[1], d2 |-> BlobGrid[2], thr |-> thr]
    /\ ci = 0
    /\ coordinates = <<>>
    /\ cprev = NoPrev
    /\ lin = NoLin
    /\ rp = NoRace
    /\ pc = "contour_loop"
    /\ files = [d \in Datasets |-> NoFiles]
    /\ raw = [d \in Datasets |-> FALSE]
    /\ ncpus = 1
    /\ server = FALSE
    /\ cur = NoCur
    /\ loc = NoLoc
    /\ calls = <<>>
    /\ ret = NoRet
    /\ runs = 0
    /\ tcall = NoTcall
    /\ last = [d \in Datasets |-> "none"]

\* cnmf.py:360-371  contour(A, d1, d2, thr) is called again for the same A
ContourAgain(thr) ==
    /\ pc = "contour_done"
    /\ ~cprev.called
    /\ LevelLeq(cin.thr, thr)
    /\ cprev' = [called |-> TRUE, thr |-> cin.thr, coordinates |-> coordinates]
    /\ cin' = [cin EXCEPT !.thr = thr]
    /\ ci' = 0
    /\ coordinates' = <<>>
    /\ pc' = "contour_loop"
    /\ UNCHANGED << files, server, cur, loc, calls, ret, runs, envVars, raceVars, cacheVars, last >>

NextThreshold ==
    \/ ContourStep
    \/ ContourReturn
    \/ \E thr \in Levels : ContourAgain(thr)

SpecThreshold == InitThreshold /\ [][NextThreshold]_vars

\* the grid edge between two neighbouring pixels
EdgeBetween(q, n) ==
    IF q[1] < n[1] \/ q[2] < n[2]
    THEN <<q[1], q[2], n[1], n[2]>>
    ELSE <<n[1], n[2], q[1], q[2]>>

\* the pixels reached from S along grid edges that the line L does not cross
RECURSIVE Outside(_, _, _, _)
Outside(L, d1, d2, S) ==
    LET more == {n \in Pixels(d1, d2) :
                    \E q \in S : /\ EdgeBetween(q, n) \in GridEdges(d1, d2)
                                  /\ EdgeBetween(q, n) \notin L}
    IN  IF more \subseteq S THEN S ELSE Outside(L, d1, d2, S \cup more)

\* the pixels a returned polygon encloses: those its line cuts off from the border
\* of the grid; the placeholder, three times the origin, encloses none
Enclosed(c, d1, d2) ==
    IF c.kind = "fallback"
    THEN {}
    ELSE Pixels(d1, d2) \ Outside(Range(c.pts), d1, d2, Border(d1, d2))

RECURSIVE Mass(_, _, _)
Mass(a, d1, P) ==
    IF P = {} THEN 0
    ELSE LET q == CHOOSE x \in P : TRUE
         IN  a[q[1] + d1 * q[2] + 1] + Mass(a, d1, P \ {q})

DepthRegion(a, thr) == {k \in DOMAIN a : ~AboveLevel(Bvec(a)[k], thr)}

\* C15 (threshold monotonicity): for a single component of non-zero weight and
\* thresholds 0 < t1 <= t2 <= 1, the pixels of inclusion depth <= t1 are among
\* those of depth <= t2, and the weight enclosed by the polygon contour() returns
\* for t2 is at least the weight enclosed by the polygon it returns for t1.
C15_ThresholdMonotone ==
    (cprev.called /\ pc = "contour_done") =>
        LET a == cin.A[1]
        IN  /\ DepthRegion(a, cprev.thr) \subseteq DepthRegion(a, cin.thr)
            /\ Mass(a, cin.d1, Enclosed(coordinates[1], cin.d1, cin.d2)) >=
                  Mass(a, cin.d1, Enclosed(cprev.coordinates[1], cin.d1, cin.d2))

(***************************************************************************)
(* The linearization of the pixels: tiffs_to_cnmf flattens the frame cube  *)
(* of shape (d1, d2, T) into the matrix of shape (d1*d2, T); contour()     *)
(* reshapes a vector indexed like the rows of that matrix into a d1 x d2   *)
(* map.  Indices count from 0; a cube has one bright pixel.                *)
(***************************************************************************)
OffsetC3(d1, d2, T, r, c, t) == (r * d2 + c) * T + t

\* order='F': the offset of element [r, c, t] in an array of shape (d1, d2, T)
OffsetF3(d1, d2, T, r, c, t) == r + d1 * (c + d2 * t)

\* order='F': the offset of element [k, t] in an array of shape (n, T)
OffsetF2(n, T, k, t) == k + n * t

Voxels(d1, d2, T) == (0..(d1 - 1)) \X (0..(d2 - 1)) \X (0..(T - 1))
Cubes(d1, d2, T) ==
    {[q \in Voxels(d1, d2, T) |-> IF q = hot THEN 1 ELSE 0] : hot \in Voxels(d1, d2, T)}

\* cnmf.py:74  tiff_data_r = np.reshape(tiff_data, (d1*d2, T), order='F')
ReshapeF(Y, d1, d2, T) ==
    [kt \in (0..(d1 * d2 - 1)) \X (0..(T - 1)) |->
        Y[CHOOSE q \in Voxels(d1, d2, T) :
             OffsetF3(d1, d2, T, q[1], q[2], q[3]) = OffsetF2(d1 * d2, T, kt[1], kt[2])]]

InitLinear ==
    /\ \E d1 \in 1..MaxSide, d2 \in 1..MaxSide, T \in 1..NumFrames :
          \E Y \in Cubes(d1, d2, T) :
             lin = [NoLin EXCEPT !.stage = "cube", !.d1 = d1, !.d2 = d2, !.T = T, !.Y = Y]
    /\ tcall = NoTcall
    /\ cin = NoCin
    /\ ci = 0
    /\ coordinates = <<>>
    /\ cprev = NoPrev
    /\ rp = NoRace
    /\ pc = "idle"
    /\ files = [d \in Datasets |-> NoFiles]
    /\ raw = [d \in Datasets |-> FALSE]
    /\ ncpus = 1
    /\ server = FALSE
    /\ cur = NoCur
    /\ loc = NoLoc
    /\ calls = <<>>
    /\ ret = NoRet
    /\ runs = 0
    /\ last = [d \in Datasets |-> "none"]

\* cnmf.py:72-76  d1, d2, T = tiff_data.shape; tiff_data_r = np.reshape(...)
Flatten ==
    /\ lin.stage = "cube"
    /\ lin' = [lin EXCEPT !.stage = "flattened",
                          !.Yr = ReshapeF(lin.Y, lin.d1, lin.d2, lin.T)]
    /\ UNCHANGED << files, server, pc, cur, loc, calls, ret, runs, envVars, raceVars, tcall,
                    contourVars, last >>

\* cnmf.py:379  Bmat = np.reshape(Bvec, (d1, d2), order='F'), for the vector that
\* column t of the flattened matrix is
ReshapeColumn(t) ==
    /\ lin.stage = "flattened"
    /\ LET col == [k \in 1..(lin.d1 * lin.d2) |-> lin.Yr[<<k - 1, t>>]]
       IN  lin' = [lin EXCEPT !.stage = "reshaped", !.t = t,
                              !.grid = [q \in Pixels(lin.d1, lin.d2) |->
                                           Bmat(col, lin.d1, q[1], q[2])]]
    /\ UNCHANGED << files, server, pc, cur, loc, calls, ret, runs, envVars, raceVars, tcall,
                    contourVars, last >>

NextLinear ==
    \/ Flatten
    \/ \E t \in 0..(lin.T - 1) : ReshapeColumn(t)

SpecLinear == InitLinear /\ [][NextLinear]_vars

\* C14 (linearization consistency): for every shape d1 x d2 and pixel (r, c), the
\* row of the flattened matrix that holds pixel (r, c) of a frame is the element
\* from which contour() fills position (r, c) of its map, so that reshaping a
\* column of the flattened matrix gives back the frame.
C14_Linearization ==
    /\ lin.stage \in {"flattened", "reshaped"} =>
          \A q \in Voxels(lin.d1, lin.d2, lin.T) :
              LET rows == [k \in 1..(lin.d1 * lin.d2) |-> k - 1]
              IN  lin.Yr[<<Bmat(rows, lin.d1, q[1], q[2]), q[3]>>] = lin.Y[q]
    /\ lin.stage = "reshaped" =>
          \A q \in Pixels(lin.d1, lin.d2) : lin.grid[q] = lin.Y[<<q[1], q[2], lin.t>>]

\* a cube that is not square, of more than one frame, flattened and reshaped for
\* the frame that holds its bright pixel, which lies off the diagonal
C14_Witness ==
    /\ lin.stage = "reshaped"
    /\ lin.d1 # lin.d2 /\ lin.d1 > 1 /\ lin.d2 > 1 /\ lin.T > 1
    /\ \E q \in Pixels(lin.d1, lin.d2) : q[1] # q[2] /\ lin.grid[q] = 1

(***************************************************************************)
(* Two invocations of process_data for dataset 1 that run at the same      *)
(* time, in two processes; the frames come from the frame files and no     *)
(* mask is given.  np.save opens (creates or truncates) its file, then     *)
(* writes it; np.load of a file that is open for writing finds less than   *)
(* the header announces and raises.  rp.absent and rp.nobundle count the   *)
(* existence tests that found no file, rp.lost the runs that raised after  *)
(* finding no bundle, rp.torn names the files loaded while being written.  *)
(***************************************************************************)
At(p, where) == rp.pc[p] = where
Goto(p, where) == [rp EXCEPT !.pc[p] = where]
BeingWritten(where) == \E q \in Procs : At(q, where)
Opened(old) == [exists |-> TRUE, frames |-> {}, ver |-> old.ver]

LooksAgainBeforeSave(f) == f.Y.exists

\* cnmf.py:46-75  between the test of line 46 and np.save the file is not tested again
LooksAgain(f) == FALSE

InitRace ==
    /\ rp = NoRace
    /\ files = [d \in Datasets |-> NoFiles]
    /\ raw = [d \in Datasets |-> FALSE]
    /\ ncpus = MaxCpus
    /\ server \in BOOLEAN
    /\ runs = 0
    /\ pc = "idle"
    /\ cur = NoCur
    /\ loc = NoLoc
    /\ calls = <<>>
    /\ ret = NoRet
    /\ tcall = NoTcall
    /\ lin = NoLin
    /\ cin = NoCin
    /\ ci = 0
    /\ coordinates = <<>>
    /\ cprev = NoPrev
    /\ last = [d \in Datasets |-> "none"]

raceRest == << pc, cur, loc, calls, ret, envVars, cacheVars, contourVars, last >>

\* cnmf.py:85-88  a process calls process_data(haussio_data)
RInvoke(p) ==
    /\ At(p, "idle")
    /\ runs <= MaxRuns
    /\ runs' = runs + 1
    /\ rp' = Goto(p, "exists_Y")
    /\ UNCHANGED << files, server, raceRest >>

\* cnmf.py:46-72  if not os.path.exists(..._Y.npy): ... read the frames
RExistsY(p) ==
    /\ At(p, "exists_Y")
    /\ IF NeedsConversion(files[1], FALSE)
       THEN rp' = [Goto(p, "open_Y") EXCEPT !.absent = rp.absent + 1]
       ELSE rp' = Goto(p, "load_Y")
    /\ UNCHANGED << files, server, runs, raceRest >>

\* cnmf.py:75  np.save(..._Y, tiff_data): the file is opened
ROpenY(p) ==
    /\ At(p, "open_Y")
    /\ IF LooksAgain(files[1])
       THEN rp' = Goto(p, "load_Y") /\ UNCHANGED files
       ELSE /\ rp' = Goto(p, "write_Y")
            /\ files' = [files EXCEPT ![1].Y = Opened(@)]
    /\ UNCHANGED << server, runs, raceRest >>

\* cnmf.py:75  np.save(..._Y, tiff_data): the array is written, the file closed
RWriteY(p) ==
    /\ At(p, "write_Y")
    /\ files' = [files EXCEPT ![1].Y = NpySave(@, filenames_kept(NumFrames, NoMask))]
    /\ rp' = Goto(p, "open_Yr")
    /\ UNCHANGED << server, runs, raceRest >>

\* cnmf.py:76  np.save(..._Yr, tiff_data_r): the file is opened
ROpenYr(p) ==
    /\ At(p, "open_Yr")
    /\ files' = [files EXCEPT ![1].Yr = Opened(@)]
    /\ rp' = Goto(p, "write_Yr")
    /\ UNCHANGED << server, runs, raceRest >>

\* cnmf.py:76  np.save(..._Yr, tiff_data_r): the array is written, the file closed
RWriteYr(p) ==
    /\ At(p, "write_Yr")
    /\ files' = [files EXCEPT ![1].Yr = NpySave(@, filenames_kept(NumFrames, NoMask))]
    /\ rp' = Goto(p, "load_Y")
    /\ UNCHANGED << server, runs, raceRest >>

\* cnmf.py:91-92  Y = np.load(..._Y.npy, mmap_mode='r'); d1, d2, T = Y.shape
RLoadY(p) ==
    /\ At(p, "load_Y")
    /\ IF BeingWritten("write_Y")
       THEN rp' = [Goto(p, "idle") EXCEPT !.torn = rp.torn \cup {"Y"}]
       ELSE rp' = Goto(p, "exists_cnmf")
    /\ UNCHANGED << files, server, runs, raceRest >>

\* cnmf.py:94  if not os.path.exists(fn_cnmf)
RExistsCnmf(p) ==
    /\ At(p, "exists_cnmf")
    /\ IF BundleExists(1)
       THEN rp' = Goto(p, "loadmat")
       ELSE rp' = [Goto(p, "load_Yr") EXCEPT !.nobundle = rp.nobundle + 1]
    /\ UNCHANGED << files, server, runs, raceRest >>

\* cnmf.py:96-100  stop_server(); Yr = np.load(..._Yr.npy, mmap_mode='r')
RLoadYr(p) ==
    /\ At(p, "load_Yr")
    /\ server' = FALSE
    /\ IF ~files[1].Yr.exists \/ BeingWritten("write_Yr")
       THEN rp' = [Goto(p, "idle") EXCEPT
                     !.lost = rp.lost + 1,
                     !.torn = IF files[1].Yr.exists THEN rp.torn \cup {"Yr"} ELSE rp.torn]
       ELSE rp' = Goto(p, "stages")
    /\ UNCHANGED << files, runs, raceRest >>

\* cnmf.py:104-190  start_server(NCPUS) and the library calls, all returning
RStages(p) ==
    /\ At(p, "stages")
    /\ server' = TRUE
    /\ rp' = Goto(p, "savemat")
    /\ UNCHANGED << files, runs, raceRest >>

\* cnmf.py:196  savemat(fn_cnmf, ...)
RSaveMat(p) ==
    /\ At(p, "savemat")
    /\ files' = [files EXCEPT ![1].cnmf =
                    [Computed("process_data", <<2, 400>>, files[1].Yr.frames)
                        EXCEPT !.ver = files[1].cnmf.ver + 1]]
    /\ rp' = Goto(p, "proj")
    /\ UNCHANGED << server, runs, raceRest >>

\* cnmf.py:198-203  resdict = loadmat(fn_cnmf)
RLoadMat(p) ==
    /\ At(p, "loadmat")
    /\ rp' = Goto(p, "proj")
    /\ UNCHANGED << files, server, runs, raceRest >>

\* cnmf.py:205-225  the projection is saved or loaded; order_components,
\* stop_server, contour; return
RReturn(p) ==
    /\ At(p, "proj")
    /\ files' = [files EXCEPT ![1].proj =
                    IF @.exists THEN @ ELSE NpySave(@, files[1].Y.frames)]
    /\ server' = FALSE
    /\ rp' = Goto(p, "idle")
    /\ UNCHANGED << runs, raceRest >>

NextRace ==
    \E p \in Procs :
        \/ RInvoke(p)
        \/ RExistsY(p)
        \/ ROpenY(p)
        \/ RWriteY(p)
        \/ ROpenYr(p)
        \/ RWriteYr(p)
        \/ RLoadY(p)
        \/ RExistsCnmf(p)
        \/ RLoadYr(p)
        \/ RStages(p)
        \/ RSaveMat(p)
        \/ RLoadMat(p)
        \/ RReturn(p)

SpecRace == InitRace /\ [][NextRace]_vars

InFlight(places) == Cardinality({p \in Procs : rp.pc[p] \in places})

\* C16 (unlocked cache race): nothing excludes two concurrent invocations from
\* each other: every invocation whose test found <name>_Y.npy absent writes
\* <name>_Y.npy and <name>_Yr.npy, and every one whose test found no bundle and
\* that did not raise writes <name>_cnmf.mat, whatever the other has written in
\* between; so the files are written as often as the tests were passed.
C16_UnlockedRace ==
    /\ files[1].Y.ver + InFlight({"open_Y", "write_Y"}) = rp.absent
    /\ files[1].Yr.ver + InFlight({"open_Y", "write_Y", "open_Yr", "write_Yr"}) = rp.absent
    /\ files[1].cnmf.ver + InFlight({"load_Yr", "stages", "savemat"}) + rp.lost
          = rp.nobundle

\* both invocations passed the test of <name>_Y.npy and both wrote it and
\* <name>_Yr.npy, the bundle has been written twice, and an invocation has
\* loaded a cache file while the other was writing it
C16_Witness ==
    /\ rp.absent = 2
    /\ files[1].Y.ver = 2
    /\ files[1].Yr.ver = 2
    /\ files[1].cnmf.ver = 2
    /\ rp.torn # {}

====
